---- MODULE Spec2Model ----
(***************************************************************************)
(* Model of the asta web client's utilities: the retrying fetch wrapper    *)
(* (src/js/utils.js, fetchWithErrorHandling) and the players-online        *)
(* refresher that polls through it (src/js/stats.js, StatsModule).         *)
(*                                                                         *)
(* JavaScript runs one task at a time: an action of this model is one task *)
(* of the event loop together with the microtasks it triggers, that is,    *)
(* the code from one resumption up to the next await that really suspends. *)
(***************************************************************************)
EXTENDS Integers, Sequences, FiniteSets, TLC

\* ------------------------------------------------------------------ bounds
\* Largest players-online figure the modelled API reports.
MaxCount == 1
\* Number of update cycles the model can represent side by side.
MaxCycles == 2
\* Field values are all strings up to this length, and a few longer ones.
MaxLen == 2
\* Clock readings, in half session lifetimes, and token saves in flight.
MaxTime == 3
MaxSaves == 2
\* Firestore lookups a page can have pending at a time.
MaxRenders == 2
\* downloadClient calls of one page visit.
MaxDownloads == 2

\* ------------------------------------------------------- program constants
maxRetries == 3
retryDelay == 1000
abortAfterMs == 10000
defaultPasswordMin == 8
sessionLifetime == 3600000
registerPasswordMin == 8
usernameMin == 3
usernameMax == 20

\* ----------------------------------------------------------------- values
\* What response.json() can deliver: an object whose onlinePlayers is a
\* number, or some other JSON value.
Payloads ==
    [kind : {"count"}, n : 0..MaxCount] \cup {[kind |-> "other", n |-> 0]}

\* A body that does not parse as JSON.
Garbage == [kind |-> "garbage", n |-> 0]

Bodies == Payloads \cup {Garbage}

NoValue == [kind |-> "none", n |-> 0]

Last(s) == s[Len(s)]

\* ------------------------------------------------------------------ state
VARIABLES
    call,       \* the fetchWithErrorHandling call of a direct caller
    onLine,     \* navigator.onLine
    stats,      \* the StatsModule instance's fields
    intervals,  \* ids of the setInterval timers that are active
    cycles,     \* the fetch call of each updateStats body between set and clear
    display,    \* the #player-stats element
    form,       \* the fields of the form on the page, in document order
    dom,        \* per field name: its error class and its message element
    lastOp,     \* the last FormValidator call, its argument and its result
    currentUser,  \* AuthModule.currentUser (<<>> is null)
    storage,    \* localStorage: the three session keys (<<>>: absent)
    location,   \* the page window.location.href was last set to
    authCalls,  \* where the login and logout calls are, and token saves pending
    now,        \* Date.now()
    nav,        \* App and NavigationBar: last notified user, menu, lookups
    dash,       \* DashboardModule: currentUser, loads pending, profile shown
    download,   \* DownloadModule: clientInfo, its calls, windows, log, toasts
    register    \* the RegisterModule.register call and what it has issued

vars == <<call, onLine, stats, intervals, cycles, display, form, dom, lastOp,
          currentUser, storage, location, authCalls, now,
          nav, dash, download, register>>

pageVars == <<nav, dash, download, register>>

formVars == <<form, dom, lastOp>>

authVars == <<currentUser, storage, location, authCalls, now>>

\* ------------------------------------------------------- AuthModule (pure)
Users == {"ann"}

NoSession == [authToken |-> <<>>, userEmail |-> <<>>, sessionExpiry |-> <<>>]

\* What the then-callback of saveSession stores at time t for user u.
Saved(u, t) ==
    [authToken |-> <<u>>, userEmail |-> <<u>>,
     sessionExpiry |-> <<t + sessionLifetime>>]

\* login and logout are where the AuthModule calls are, viaForm whether the
\* login was made by the login form's submit handler, pageLogout where the
\* logout handler of the navigation bar or of the dashboard is, saves the
\* number of getIdToken() promises of saveSession still pending.
NoAuthCalls ==
    [login |-> "idle", viaForm |-> FALSE, logout |-> "idle",
     pageLogout |-> "idle", saves |-> 0]

\* ------------------------------------------------- the pages' modules, idle
NavUsers == {"ann", "bob"}

NoPending == [u \in NavUsers |-> 0]

NoMenu == [kind |-> "none", user |-> "", label |-> ""]

\* App and NavigationBar after construction on a page with #nav-links.
NoNav ==
    [page |-> "index", el |-> TRUE, notified |-> FALSE, lastUser |-> <<>>,
     currentUser |-> <<>>, menu |-> NoMenu, pending |-> NoPending]

NoDash == [currentUser |-> <<>>, loads |-> NoPending, shown |-> <<>>]

NoDownload ==
    [clientInfo |-> <<>>, calls |-> <<>>, opened |-> 0, log |-> 0,
     toasts |-> <<>>, display |-> "idle", button |-> ""]

\* The register call: its arguments, how the availability query ended
\* (found), the error thrown, and the account-creation and profile-write
\* calls it has issued.
NoRegister ==
    [pc |-> "idle",
     args |-> [username |-> <<>>, email |-> <<>>, password |-> <<>>],
     found |-> "", error |-> "", created |-> 0, written |-> 0]

IdlePages ==
    /\ nav = NoNav
    /\ dash = NoDash
    /\ download = NoDownload
    /\ register = NoRegister

\* The auth module after construction, with nothing stored.
IdleAuth ==
    /\ currentUser = <<>>
    /\ storage = NoSession
    /\ location = "page"
    /\ authCalls = NoAuthCalls
    /\ now = 0

\* ------------------------------------------- fetchWithErrorHandling (pure)
\* A call before it is made.  abortTimers holds the armed setTimeout(abort)
\* timers, delayMs the argument of the pending delay() (0: none); errors,
\* waits and toasts record what the call has thrown inside the loop, the
\* delays it has requested and the toasts it has shown.
NoCall ==
    [pc |-> "idle", attempt |-> 0, abortTimers |-> {}, delayMs |-> 0,
     body |-> NoValue, result |-> NoValue,
     errors |-> <<>>, waits |-> <<>>, toasts |-> <<>>]

InFlight(c) == c.pc \in {"fetching", "decoding"}

Settled(c) == c.pc \in {"returned", "thrown"}

\* Loop head and the body up to `await fetch(...)`.
StartAttempt(c, a) ==
    [c EXCEPT !.pc = "fetching",
              !.attempt = a,
              !.body = NoValue,
              !.abortTimers = @ \cup {[attempt |-> a, ms |-> abortAfterMs]}]

ClassifyOfflineFirst(kind, online) ==
    IF ~online THEN "Offline"
    ELSE IF kind = "abort" THEN "Timeout"
    ELSE "ConnectionError"

\* The branch handleNetworkError takes.
Classify(kind, online) ==
    IF kind = "abort" THEN "Timeout"
    ELSE IF ~online THEN "Offline"
    ELSE "ConnectionError"

handleNetworkError(c, kind, online) ==
    [c EXCEPT !.toasts = Append(@, Classify(kind, online))]

Backoff(c) ==
    [c EXCEPT !.pc = "delaying",
              !.delayMs = retryDelay * c.attempt,
              !.waits = Append(@, retryDelay * c.attempt)]

Throw(c, kind, online) ==
    [handleNetworkError(c, kind, online) EXCEPT !.pc = "thrown"]

\* The error the try block throws: "network" (fetch() rejects with a
\* TypeError), "abort" (the abort timer fired: AbortError), "http" (status
\* not ok) or "decode" (response.json() rejects).
Failed(c, kind) == [c EXCEPT !.errors = Append(@, kind)]

\* Mutants of the catch block.
CatchOffByOne(c, kind, online) ==
    IF c.attempt = maxRetries - 1
    THEN Throw(Failed(c, kind), kind, online)
    ELSE Backoff(Failed(c, kind))

CatchFlatDelay(c, kind, online) ==
    IF c.attempt = maxRetries
    THEN Throw(Failed(c, kind), kind, online)
    ELSE [Failed(c, kind) EXCEPT !.pc = "delaying",
                                  !.delayMs = retryDelay,
                                  !.waits = Append(@, retryDelay)]

CatchToastEach(c, kind, online) ==
    IF c.attempt = maxRetries
    THEN Throw(Failed(c, kind), kind, online)
    ELSE Backoff(handleNetworkError(Failed(c, kind), kind, online))

CatchHttpFatal(c, kind, online) ==
    IF c.attempt = maxRetries \/ kind = "http"
    THEN Throw(Failed(c, kind), kind, online)
    ELSE Backoff(Failed(c, kind))

CatchNoAwait(c, kind, online) ==
    IF c.attempt = maxRetries
    THEN Throw(Failed(c, kind), kind, online)
    ELSE StartAttempt(
             [Failed(c, kind) EXCEPT !.delayMs = retryDelay * c.attempt,
                                     !.waits = Append(@, retryDelay * c.attempt)],
             c.attempt + 1)

\* The catch block: the last attempt notifies and rethrows, an earlier one
\* starts the backoff delay.
Catch(c, kind, online) ==
    IF c.attempt = maxRetries
    THEN Throw(Failed(c, kind), kind, online)
    ELSE Backoff(Failed(c, kind))

\* fetch() rejects for a network reason; its abort timer stays armed.
FetchRejected(c, online) == Catch(c, "network", online)

\* fetch() resolves with a response: the timer is cleared, a status that is
\* not ok is thrown, otherwise response.json() is awaited.
FetchResolved(c, ok, body, online) ==
    LET c1 == [c EXCEPT !.abortTimers = {t \in @ : t.attempt # c.attempt}]
    IN  IF ~ok
        THEN Catch(c1, "http", online)
        ELSE [c1 EXCEPT !.pc = "decoding", !.body = body]

JsonResolvedNoReturn(c) ==
    IF c.attempt = maxRetries
    THEN [c EXCEPT !.pc = "returned", !.result = c.body]
    ELSE StartAttempt(c, c.attempt + 1)

\* response.json() resolves: the payload is returned.
JsonResolved(c) == [c EXCEPT !.pc = "returned", !.result = c.body]

\* response.json() rejects (SyntaxError, or the body stream breaks).
JsonRejected(c, online) == Catch(c, "decode", online)

\* An abort timer fires: controller.abort() rejects what is pending on that
\* controller's signal with an AbortError, and does nothing once the
\* attempt it belongs to is over.
AbortFired(c, t, online) ==
    LET c1 == [c EXCEPT !.abortTimers = @ \ {t}]
    IN  IF t.attempt = c.attempt /\ InFlight(c)
        THEN Catch(c1, "abort", online)
        ELSE c1

\* The delay() promise resolves: next iteration of the loop.
DelayElapsed(c) == StartAttempt([c EXCEPT !.delayMs = 0], c.attempt + 1)

\* ----------------------------------------------------- a direct fetch call
NoStats == [updateInterval |-> 0, lastKnownCount |-> <<>>, isUpdating |-> FALSE]

NoDisplay == [text |-> NoValue, classes |-> {}, stamped |-> FALSE]

Init ==
    /\ call = NoCall
    /\ onLine \in BOOLEAN
    /\ stats = NoStats
    /\ intervals = {}
    /\ cycles = [i \in 1..MaxCycles |-> NoCall]
    /\ display = NoDisplay
    /\ form = <<>>
    /\ dom = <<>>
    /\ lastOp = [op |-> "none"]
    /\ IdleAuth
    /\ IdlePages

statsVars == <<stats, intervals, cycles, display>>

Call ==
    /\ call.pc = "idle"
    /\ call' = StartAttempt(call, 1)
    /\ UNCHANGED <<onLine, statsVars, formVars, authVars, pageVars>>

NetworkError ==
    /\ call.pc = "fetching"
    /\ call' = FetchRejected(call, onLine)
    /\ UNCHANGED <<onLine, statsVars, formVars, authVars, pageVars>>

Response ==
    /\ call.pc = "fetching"
    /\ \E ok \in BOOLEAN, body \in Bodies :
           call' = FetchResolved(call, ok, body, onLine)
    /\ UNCHANGED <<onLine, statsVars, formVars, authVars, pageVars>>

BodyDecoded ==
    /\ call.pc = "decoding"
    /\ call.body \in Payloads
    /\ call' = JsonResolved(call)
    /\ UNCHANGED <<onLine, statsVars, formVars, authVars, pageVars>>

BodyFailed ==
    /\ call.pc = "decoding"
    /\ call' = JsonRejected(call, onLine)
    /\ UNCHANGED <<onLine, statsVars, formVars, authVars, pageVars>>

AbortTimer ==
    /\ \E t \in call.abortTimers : call' = AbortFired(call, t, onLine)
    /\ UNCHANGED <<onLine, statsVars, formVars, authVars, pageVars>>

DelayTimer ==
    /\ call.pc = "delaying"
    /\ call' = DelayElapsed(call)
    /\ UNCHANGED <<onLine, statsVars, formVars, authVars, pageVars>>

\* The browser's connectivity changes.
Connectivity ==
    /\ onLine' = ~onLine
    /\ UNCHANGED <<call, statsVars, formVars, authVars, pageVars>>

FetchNext ==
    \/ Call
    \/ NetworkError
    \/ Response
    \/ BodyDecoded
    \/ BodyFailed
    \/ AbortTimer
    \/ DelayTimer
    \/ Connectivity

FetchSpec == Init /\ [][FetchNext]_vars

\* Timers fire; the network owes nothing.
FairFetchSpec == FetchSpec /\ WF_vars(AbortTimer) /\ WF_vars(DelayTimer)

\* ------------------------------------------------------------ StatsModule
\* An updateStats body is between `isUpdating = true` and the finally block
\* while the fetch call it awaits has not settled.
InProgress(c) == c.pc \in {"fetching", "decoding", "delaying"}

RunningIn(cy) == {i \in 1..MaxCycles : InProgress(cy[i])}

Running == RunningIn(cycles)

\* The slot the next cycle's fetch call is kept in.
FreeSlots(cy) == (1..MaxCycles) \ RunningIn(cy)

NextSlot(cy) == CHOOSE i \in FreeSlots(cy) : \A j \in FreeSlots(cy) : i <= j

getOnlinePlayersCountForgets(last, c) ==
    IF c.pc = "returned" /\ c.result.kind = "count"
    THEN [last |-> <<c.result.n>>, count |-> <<c.result.n>>]
    ELSE [last |-> <<>>, count |-> IF c.pc = "returned" THEN <<0>> ELSE <<>>]

\* getOnlinePlayersCount after `await fetchWithErrorHandling(...)`: the new
\* lastKnownCount and the value returned (<<>> is null).
getOnlinePlayersCount(last, c) ==
    IF c.pc = "returned"
    THEN IF c.result.kind = "count"
         THEN [last |-> <<c.result.n>>, count |-> <<c.result.n>>]
         ELSE [last |-> last, count |-> IF last # <<>> THEN last ELSE <<0>>]
    ELSE [last |-> last, count |-> last]

updateTimestamp(d) == [d EXCEPT !.stamped = TRUE]

\* displayStats for a count that is a number; last is this.lastKnownCount.
displayStats(d, last, n) ==
    updateTimestamp(
        [d EXCEPT !.text = [kind |-> "count", n |-> n],
                  !.classes = ((@ \ {"error", "unavailable"}) \cup {"active"})
                              \cup (IF last # <<>> /\ last # <<n>>
                                    THEN {"updated"} ELSE {})])

\* stamped says that #stats-timestamp holds the time of the last finished
\* cycle: displayStatsUnavailable leaves the element as it was, so it no
\* longer does.
displayStatsUnavailable(d, last) ==
    [d EXCEPT !.text = IF last # <<>>
                       THEN [kind |-> "stale", n |-> last[1]]
                       ELSE [kind |-> "unavailable", n |-> 0],
              !.classes = (@ \cup (IF last # <<>> THEN {"unavailable"}
                                   ELSE {"error"})) \ {"active"},
              !.stamped = FALSE]

\* updateStats from the resumption of its await to the end of finally.
updateStatsEnd(st, d, c) ==
    LET got == getOnlinePlayersCount(st.lastKnownCount, c)
    IN  [stats |-> [st EXCEPT !.lastKnownCount = got.last,
                              !.isUpdating = FALSE],
         display |-> IF got.count # <<>>
                     THEN displayStats(d, got.last, got.count[1])
                     ELSE displayStatsUnavailable(d, got.last)]

updateStatsNoGuard(st, cy) ==
    IF FreeSlots(cy) = {}
    THEN [stats |-> st, cycles |-> cy]
    ELSE [stats |-> [st EXCEPT !.isUpdating = TRUE],
          cycles |-> [cy EXCEPT ![NextSlot(cy)] = StartAttempt(NoCall, 1)]]

\* updateStats up to its first suspension: the reentrancy guard, the flag,
\* and the fetch call as far as `await fetch(...)`.
updateStats(st, cy) ==
    IF st.isUpdating \/ FreeSlots(cy) = {}
    THEN [stats |-> st, cycles |-> cy]
    ELSE [stats |-> [st EXCEPT !.isUpdating = TRUE],
          cycles |-> [cy EXCEPT ![NextSlot(cy)] = StartAttempt(NoCall, 1)]]

\* setInterval returns an id no active timer has.
NewTimerId == CHOOSE id \in 1..(Cardinality(intervals) + 1) : id \notin intervals

\* stopAutoUpdate: the instance's fields and the active timers afterwards.
stopAutoUpdate(st, iv) ==
    IF st.updateInterval # 0
    THEN [stats |-> [st EXCEPT !.updateInterval = 0],
          intervals |-> iv \ {st.updateInterval}]
    ELSE [stats |-> st, intervals |-> iv]

StartAutoUpdateNoStop ==
    LET begun == updateStats(stats, cycles)
        id == NewTimerId
    IN  /\ stats' = [begun.stats EXCEPT !.updateInterval = id]
        /\ intervals' = intervals \cup {id}
        /\ cycles' = begun.cycles
        /\ UNCHANGED <<call, onLine, display, formVars, authVars, pageVars>>

\* startAutoUpdate(60000): stop, first update at once, then the timer.
StartAutoUpdate ==
    LET stopped == stopAutoUpdate(stats, intervals)
        begun == updateStats(stopped.stats, cycles)
        id == NewTimerId
    IN  /\ stats' = [begun.stats EXCEPT !.updateInterval = id]
        /\ intervals' = stopped.intervals \cup {id}
        /\ cycles' = begun.cycles
        /\ UNCHANGED <<call, onLine, display, formVars, authVars, pageVars>>

StopAutoUpdate ==
    LET stopped == stopAutoUpdate(stats, intervals)
    IN  /\ stats' = stopped.stats
        /\ intervals' = stopped.intervals
        /\ UNCHANGED <<call, onLine, cycles, display, formVars, authVars, pageVars>>

\* An interval timer fires: its callback calls updateStats.
IntervalTick ==
    /\ intervals # {}
    /\ LET begun == updateStats(stats, cycles)
       IN  /\ stats' = begun.stats
           /\ cycles' = begun.cycles
    /\ UNCHANGED <<call, onLine, intervals, display, formVars, authVars, pageVars>>

\* Cycle i's fetch call moves to c; when that settles it, updateStats
\* resumes and runs to its end in the same task.
Advance(i, c) ==
    /\ cycles' = [cycles EXCEPT ![i] = c]
    /\ IF Settled(c) /\ ~Settled(cycles[i])
       THEN LET done == updateStatsEnd(stats, display, c)
            IN  stats' = done.stats /\ display' = done.display
       ELSE UNCHANGED <<stats, display>>
    /\ UNCHANGED <<call, onLine, intervals, formVars, authVars, pageVars>>

CycleNetworkError ==
    \E i \in 1..MaxCycles :
        /\ cycles[i].pc = "fetching"
        /\ Advance(i, FetchRejected(cycles[i], onLine))

CycleResponse ==
    \E i \in 1..MaxCycles :
        /\ cycles[i].pc = "fetching"
        /\ \E ok \in BOOLEAN, body \in Bodies :
               Advance(i, FetchResolved(cycles[i], ok, body, onLine))

CycleBodyDecoded ==
    \E i \in 1..MaxCycles :
        /\ cycles[i].pc = "decoding"
        /\ cycles[i].body \in Payloads
        /\ Advance(i, JsonResolved(cycles[i]))

CycleBodyFailed ==
    \E i \in 1..MaxCycles :
        /\ cycles[i].pc = "decoding"
        /\ Advance(i, JsonRejected(cycles[i], onLine))

CycleAbortTimer ==
    \E i \in 1..MaxCycles :
        \E t \in cycles[i].abortTimers :
            Advance(i, AbortFired(cycles[i], t, onLine))

CycleDelayTimer ==
    \E i \in 1..MaxCycles :
        /\ cycles[i].pc = "delaying"
        /\ Advance(i, DelayElapsed(cycles[i]))

StatsNext ==
    \/ StartAutoUpdate
    \/ StopAutoUpdate
    \/ IntervalTick
    \/ CycleNetworkError
    \/ CycleResponse
    \/ CycleBodyDecoded
    \/ CycleBodyFailed
    \/ CycleAbortTimer
    \/ CycleDelayTimer
    \/ Connectivity

StatsSpec == Init /\ [][StatsNext]_vars

\* Timers fire; the network owes nothing.
FairStatsSpec ==
    StatsSpec /\ WF_vars(CycleAbortTimer) /\ WF_vars(CycleDelayTimer)

\* ---------------------------------------------------------- FormValidator
\* Strings are sequences of characters: a letter, a blank, "@" and ".".
Chars == {"a", " ", "@", "."}

Rep(c, n) == [i \in 1..n |-> c]

Values ==
    UNION {[1..k -> Chars] : k \in 0..MaxLen}
    \cup {Rep("a", 3), Rep("a", 5), Rep("a", 7), Rep("a", 8),
          <<"a", "@", "a", ".", "a">>,
          <<"a", " ", "a", "@", "a", ".", "a">>}

\* The pattern attributes of the modelled forms ("" is none).
Patterns == {"^a+$", "@"}

\* new RegExp(p).test(v): an unanchored search.
Matches(p, v) ==
    IF p = "^a+$"
    THEN Len(v) >= 1 /\ \A i \in 1..Len(v) : v[i] = "a"
    ELSE \E i \in 1..Len(v) : v[i] = "@"

\* A form field and the attributes validate reads.  minlength and
\* maxlength are <<>> when the attribute is absent; title, placeholder and
\* pattern are "" when absent; a disabled field has no FormData entry.
Fields(names, values) ==
    [name : names, required : BOOLEAN, disabled : {FALSE},
     type : {"text", "email", "password"},
     minlength : {<<>>, <<2>>, <<8>>}, maxlength : {<<>>, <<2>>},
     pattern : {""} \cup Patterns, title : {"", "hint"},
     placeholder : {"", "ph"}, value : values]

Disabled(f) == [f EXCEPT !.disabled = TRUE]

\* The messages, by the rule that writes them, the number they state and
\* the label they quote.
Msg(rule, n, label) == [rule |-> rule, n |-> n, label |-> label]

NoMsg == Msg("none", 0, "")

\* formData.get(fieldName): <<>> is null.
formDataGet(f) == IF f.disabled THEN <<>> ELSE <<f.value>>

\* s.trim() === ''
IsBlank(s) == \A i \in 1..Len(s) : s[i] = " "

NoSpaceNoAt(s, from, to) == \A i \in from..to : s[i] \notin {" ", "@"}

validateEmailAnyTld(s) ==
    \E i \in 2..Len(s), j \in 4..Len(s) - 1 :
        /\ i + 1 < j
        /\ s[i] = "@"
        /\ s[j] = "."
        /\ NoSpaceNoAt(s, 1, i - 1)
        /\ NoSpaceNoAt(s, i + 1, j - 1)

\* /^[^\s@]+@[^\s@]+\.[^\s@]+$/.test(email)
validateEmail(s) ==
    \E i \in 2..Len(s), j \in 4..Len(s) - 1 :
        /\ i + 1 < j
        /\ s[i] = "@"
        /\ s[j] = "."
        /\ NoSpaceNoAt(s, 1, i - 1)
        /\ NoSpaceNoAt(s, i + 1, j - 1)
        /\ NoSpaceNoAt(s, j + 1, Len(s))

requiredMessage(f) ==
    Msg("required", 0, IF f.placeholder # "" THEN f.placeholder ELSE f.name)

\* The rules in the order of the loop body; e is errors[fieldName] so far.
ruleEmail(f, v, e) ==
    IF f.type = "email" /\ ~validateEmail(v) THEN Msg("email", 0, "") ELSE e

passwordMin(f) ==
    IF f.minlength # <<>> THEN f.minlength[1] ELSE defaultPasswordMin

rulePassword(f, v, e) ==
    IF f.type = "password" /\ Len(v) < passwordMin(f)
    THEN Msg("password", passwordMin(f), "")
    ELSE e

ruleMinLengthInclusive(f, v, e) ==
    IF f.minlength # <<>> /\ Len(v) <= f.minlength[1]
    THEN Msg("minlength", f.minlength[1], "")
    ELSE e

ruleMinLength(f, v, e) ==
    IF f.minlength # <<>> /\ Len(v) < f.minlength[1]
    THEN Msg("minlength", f.minlength[1], "")
    ELSE e

ruleMaxLength(f, v, e) ==
    IF f.maxlength # <<>> /\ Len(v) > f.maxlength[1]
    THEN Msg("maxlength", f.maxlength[1], "")
    ELSE e

rulePatternKeepsFirst(f, v, e) ==
    IF f.pattern # "" /\ ~Matches(f.pattern, v) /\ e = NoMsg
    THEN Msg("pattern", 0, f.title)
    ELSE e

\* The message is the title attribute, or the generic one when title is "".
rulePattern(f, v, e) ==
    IF f.pattern # "" /\ ~Matches(f.pattern, v)
    THEN Msg("pattern", 0, f.title)
    ELSE e

afterEmptyCheck(f, v, e) ==
    rulePattern(f, v,
        ruleMaxLength(f, v,
            ruleMinLength(f, v,
                rulePassword(f, v,
                    ruleEmail(f, v, e)))))

checkFieldNoReturn(f) ==
    LET got == formDataGet(f)
    IN  IF got = <<>> THEN requiredMessage(f)
        ELSE afterEmptyCheck(f, got[1],
                 IF IsBlank(got[1]) THEN requiredMessage(f) ELSE NoMsg)

\* The body of the forEach callback: what errors[fieldName] holds after it
\* (NoMsg: no entry was written).
checkField(f) ==
    LET got == formDataGet(f)
    IN  IF got = <<>> \/ IsBlank(got[1])
        THEN requiredMessage(f)
        ELSE afterEmptyCheck(f, got[1], NoMsg)

\* form.querySelectorAll('input[required], textarea[required], select[required]')
selected(fm) == {i \in 1..Len(fm) : fm[i].required}

validate(fm) ==
    LET failing == {i \in selected(fm) : checkField(fm[i]) # NoMsg}
        errors == [n \in {fm[i].name : i \in failing} |->
                      checkField(fm[CHOOSE i \in failing : fm[i].name = n])]
    IN  [valid |-> DOMAIN errors = {}, errors |-> errors]

\* ------------------------------------------------ validate on bounded forms
\* A field with any attributes and value, followed by one of a few others.
Companions ==
    {[name |-> "f2", required |-> TRUE, disabled |-> FALSE, type |-> "text",
      minlength |-> <<>>, maxlength |-> <<>>, pattern |-> "", title |-> "",
      placeholder |-> "", value |-> v] : v \in {<<>>, <<"a">>}}
    \cup
    {[name |-> "f2", required |-> FALSE, disabled |-> FALSE, type |-> "text",
      minlength |-> <<>>, maxlength |-> <<2>>, pattern |-> "", title |-> "",
      placeholder |-> "", value |-> Rep("a", 3)]}

ValidateForms ==
    {<<f, g>> : f \in Fields({"f1"}, Values)
                      \cup {Disabled(h) : h \in Fields({"f1"}, {<<"a">>})},
                g \in Companions}

NoElement == [marked |-> FALSE, el |-> FALSE, text |-> NoMsg, display |-> ""]

IdleRest ==
    /\ call = NoCall
    /\ onLine = TRUE
    /\ stats = NoStats
    /\ intervals = {}
    /\ cycles = [i \in 1..MaxCycles |-> NoCall]
    /\ display = NoDisplay

restVars == <<call, onLine, stats, intervals, cycles, display>>

ValidateInit ==
    /\ IdleRest
    /\ IdleAuth
    /\ IdlePages
    /\ form \in ValidateForms
    /\ dom = [n \in {"f1", "f2"} |-> NoElement]
    /\ lastOp = [op |-> "none"]

ValidateWipes ==
    /\ form # <<>>
    /\ lastOp' = [op |-> "validate", result |-> validate(form)]
    /\ dom' = [n \in DOMAIN dom |->
                  [dom[n] EXCEPT !.marked = FALSE, !.text = NoMsg]]
    /\ UNCHANGED <<form, restVars, authVars, pageVars>>

\* validator.validate(form)
Validate ==
    /\ form # <<>>
    /\ lastOp' = [op |-> "validate", result |-> validate(form)]
    /\ UNCHANGED <<form, dom, restVars, authVars, pageVars>>

ValidateNext == Validate

ValidateSpec == ValidateInit /\ [][ValidateNext]_vars

\* ------------------------------------------- the validator and the document
\* dom[n] is what the document shows for the field named n: marked is the
\* field's `error` class, el whether the element with id n-error exists,
\* text and display that element's textContent and style.display.  The
\* message elements of a page carry the class `error-message`, as the ones
\* displayErrors creates do.
clearErrorsHideOnly(d) ==
    [n \in DOMAIN d |->
        [d[n] EXCEPT !.marked = FALSE,
                     !.display = IF d[n].el THEN "none" ELSE @]]

clearErrors(d) ==
    [n \in DOMAIN d |->
        [d[n] EXCEPT !.marked = FALSE,
                     !.text = IF d[n].el THEN NoMsg ELSE @,
                     !.display = IF d[n].el THEN "none" ELSE @]]

\* The forEach callback of displayErrors for one key: nothing when no field
\* has that name.
showError(d, n, message) ==
    IF n \notin DOMAIN d
    THEN d
    ELSE [d EXCEPT ![n] = [marked |-> TRUE, el |-> TRUE,
                           text |-> message, display |-> "block"]]

showAll(d, errors) ==
    [n \in DOMAIN d |->
        IF n \in DOMAIN errors THEN showError(d, n, errors[n])[n] ELSE d[n]]

displayErrorsNoClear(d, errors) == showAll(d, errors)

displayErrors(d, errors) == showAll(clearErrors(d), errors)

\* The message validateField settles on (NoMsg: none).
liveMessage(f) ==
    IF f.required /\ IsBlank(f.value)
    THEN Msg("required", 0, "")
    ELSE IF f.type = "email" /\ f.value # <<>> /\ ~validateEmail(f.value)
    THEN Msg("email", 0, "")
    ELSE IF f.minlength # <<>> /\ Len(f.value) > 0
            /\ Len(f.value) < f.minlength[1]
    THEN Msg("minlength", f.minlength[1], "")
    ELSE NoMsg

validateFieldCreates(d, f) ==
    IF liveMessage(f) # NoMsg
    THEN [d EXCEPT ![f.name] = [marked |-> TRUE, el |-> TRUE,
                                text |-> liveMessage(f), display |-> "block"]]
    ELSE [d EXCEPT ![f.name] = [marked |-> FALSE, el |-> d[f.name].el,
                                text |-> NoMsg,
                                display |-> IF d[f.name].el THEN "none" ELSE ""]]

validateField(d, f) ==
    IF ~d[f.name].el
    THEN d
    ELSE IF liveMessage(f) # NoMsg
    THEN [d EXCEPT ![f.name] = [marked |-> TRUE, el |-> TRUE,
                                text |-> liveMessage(f), display |-> "block"]]
    ELSE [d EXCEPT ![f.name] = [marked |-> FALSE, el |-> TRUE,
                                text |-> NoMsg, display |-> "none"]]

\* The page of the form: two fields, each with or without a message
\* element in the markup.
PageValues == {<<>>, <<" ">>, <<"a">>, <<"a", "@", "a", ".", "a">>}

PageField(n, req, type, min, v) ==
    [name |-> n, required |-> req, disabled |-> FALSE, type |-> type,
     minlength |-> min, maxlength |-> <<>>, pattern |-> "", title |-> "",
     placeholder |-> "", value |-> v]

PageForms ==
    {<<PageField("f1", req, type, min, <<>>), PageField("f2", TRUE, type2, <<>>, <<>>)>> :
        req \in BOOLEAN, type \in {"text", "email"}, min \in {<<>>, <<2>>},
        type2 \in {"text", "email"}}

\* The errors objects handed to displayErrors besides validate's: over the
\* two fields and a name no field has.
ErrorMaps ==
    UNION {[keys -> {Msg("email", 0, ""), Msg("pattern", 0, "hint")}] :
              keys \in SUBSET {"f1", "f2", "zz"}}

FormInit ==
    /\ IdleRest
    /\ IdleAuth
    /\ IdlePages
    /\ form \in PageForms
    /\ dom \in [{"f1", "f2"} ->
                   {NoElement, [NoElement EXCEPT !.el = TRUE]}]
    /\ lastOp = [op |-> "none"]

\* The user edits a field.
Input ==
    \E i \in 1..Len(form), v \in PageValues :
        /\ form' = [form EXCEPT ![i].value = v]
        /\ lastOp' = [op |-> "input"]
        /\ UNCHANGED <<dom, restVars, authVars, pageVars>>

DisplayErrors ==
    \E errors \in ErrorMaps \cup {validate(form).errors} :
        /\ dom' = displayErrors(dom, errors)
        /\ lastOp' = [op |-> "displayErrors", errors |-> errors]
        /\ UNCHANGED <<form, restVars, authVars, pageVars>>

ClearErrors ==
    /\ dom' = clearErrors(dom)
    /\ lastOp' = [op |-> "clearErrors"]
    /\ UNCHANGED <<form, restVars, authVars, pageVars>>

ValidateField ==
    \E i \in 1..Len(form) :
        /\ dom' = validateField(dom, form[i])
        /\ lastOp' = [op |-> "validateField", name |-> form[i].name]
        /\ UNCHANGED <<form, restVars, authVars, pageVars>>

FormNext ==
    \/ Input
    \/ Validate
    \/ DisplayErrors
    \/ ClearErrors
    \/ ValidateField

FormSpec == FormInit /\ [][FormNext]_vars

\* ------------------------------------------------- the two email predicates
\* RegisterModule.validateEmail: false for a falsy argument, else its own
\* copy of the same regular expression.
registerValidateEmail(s) ==
    IF s = <<>>
    THEN FALSE
    ELSE \E i \in 2..Len(s), j \in 4..Len(s) - 1 :
             /\ i + 1 < j
             /\ s[i] = "@"
             /\ s[j] = "."
             /\ \A k \in 1..(i - 1) : s[k] \notin {" ", "@"}
             /\ \A k \in (i + 1)..(j - 1) : s[k] \notin {" ", "@"}
             /\ \A k \in (j + 1)..Len(s) : s[k] \notin {" ", "@"}

EmailLen == MaxLen + 4

EmailStrings == UNION {[1..k -> Chars] : k \in 0..EmailLen}

\* The email input of the registration page holding any string.
EmailInit ==
    /\ IdleRest
    /\ IdleAuth
    /\ IdlePages
    /\ form \in {<<PageField("email", TRUE, "email", <<>>, s)>> :
                    s \in EmailStrings}
    /\ dom = [n \in {"email"} |-> [NoElement EXCEPT !.el = TRUE]]
    /\ lastOp = [op |-> "none"]

\* Both predicates applied to the input's value.
ValidateEmail ==
    /\ lastOp.op = "none"
    /\ lastOp' = [op |-> "validateEmail",
                  formValidator |-> validateEmail(form[1].value),
                  registerModule |-> registerValidateEmail(form[1].value)]
    /\ UNCHANGED <<form, dom, restVars, authVars, pageVars>>

EmailNext == ValidateEmail

EmailSpec == EmailInit /\ [][EmailNext]_vars

\* -------------------------------------------------------------- AuthModule
\* The clock advances by half a session lifetime at a time.
Unit == sessionLifetime \div 2

isSessionValidLate(st, t) ==
    IF st.authToken = <<>> \/ st.sessionExpiry = <<>>
    THEN [valid |-> FALSE, storage |-> st]
    ELSE IF t > st.sessionExpiry[1]
    THEN [valid |-> FALSE, storage |-> NoSession]
    ELSE [valid |-> TRUE, storage |-> st]

\* isSessionValid(): the value returned and the storage it leaves.  The
\* expiry is stored as the decimal string of an integer and read back with
\* parseInt, which gives the integer again.
isSessionValid(st, t) ==
    IF st.authToken = <<>> \/ st.sessionExpiry = <<>>
    THEN [valid |-> FALSE, storage |-> st]
    ELSE IF t >= st.sessionExpiry[1]
    THEN [valid |-> FALSE, storage |-> NoSession]
    ELSE [valid |-> TRUE, storage |-> st]

\* The page is loaded with whatever an earlier visit left in localStorage.
AuthInit ==
    /\ IdleRest
    /\ form = <<>>
    /\ dom = [n \in {"email", "password"} |-> [NoElement EXCEPT !.el = TRUE]]
    /\ lastOp = [op |-> "none"]
    /\ currentUser = <<>>
    /\ storage \in {NoSession} \cup {Saved(u, 0) : u \in Users}
    /\ location = "page"
    /\ authCalls = NoAuthCalls
    /\ now = 0
    /\ IdlePages

authRest == <<restVars, form, pageVars>>

\* clearErrors() of the login page: both message elements are emptied.
clearLoginErrors(d) == [n \in DOMAIN d |-> [d[n] EXCEPT !.text = NoMsg]]

\* handleAuthError(error): the message goes to the email element for
\* auth/invalid-email and to the password element for any other code.
ErrorCodes == {"auth/invalid-email", "auth/wrong-password", "other"}

handleAuthError(d, code) ==
    LET target == IF code = "auth/invalid-email" THEN "email" ELSE "password"
    IN  [d EXCEPT ![target].text = Msg("auth", 0, code)]

\* login(email, password) as far as `await signInWithEmailAndPassword(...)`.
Login ==
    /\ location = "page"
    /\ authCalls.login # "signingIn"
    /\ authCalls.saves < MaxSaves
    /\ authCalls' = [authCalls EXCEPT !.login = "signingIn", !.viaForm = FALSE]
    /\ UNCHANGED <<currentUser, storage, location, now, lastOp, dom, authRest>>

\* The login form is submitted: handleLogin clears the messages and calls
\* login, which goes as far as its await.
HandleLogin ==
    /\ location = "page"
    /\ authCalls.login # "signingIn"
    /\ authCalls.saves < MaxSaves
    /\ dom' = clearLoginErrors(dom)
    /\ authCalls' = [authCalls EXCEPT !.login = "signingIn", !.viaForm = TRUE]
    /\ UNCHANGED <<currentUser, storage, location, now, lastOp, authRest>>

\* The sign-in resolves: currentUser is set, saveSession calls
\* user.getIdToken() and returns, login returns the credential.
\* and handleLogin, when it made the call, redirects to the dashboard.
SignInResolved ==
    /\ authCalls.login = "signingIn"
    /\ \E u \in Users : currentUser' = <<u>>
    /\ authCalls' = [authCalls EXCEPT !.login = "returned", !.saves = @ + 1]
    /\ location' = IF authCalls.viaForm THEN "dashboard" ELSE location
    /\ UNCHANGED <<storage, now, lastOp, dom, authRest>>

SignInRejectedRedirects ==
    /\ authCalls.login = "signingIn"
    /\ authCalls' = [authCalls EXCEPT !.login = "thrown"]
    /\ \E code \in ErrorCodes :
           dom' = IF authCalls.viaForm THEN handleAuthError(dom, code) ELSE dom
    /\ location' = IF authCalls.viaForm THEN "dashboard" ELSE location
    /\ UNCHANGED <<currentUser, storage, now, lastOp, authRest>>

\* The sign-in rejects: login logs and rethrows; handleLogin, when it made
\* the call, catches the error and shows its message.
SignInRejected ==
    /\ authCalls.login = "signingIn"
    /\ authCalls' = [authCalls EXCEPT !.login = "thrown"]
    /\ \E code \in ErrorCodes :
           dom' = IF authCalls.viaForm THEN handleAuthError(dom, code) ELSE dom
    /\ UNCHANGED <<currentUser, storage, location, now, lastOp, authRest>>

\* A getIdToken() promise of saveSession resolves: the three keys are set.
TokenResolved ==
    /\ authCalls.saves > 0
    /\ \E u \in Users : storage' = Saved(u, now)
    /\ authCalls' = [authCalls EXCEPT !.saves = @ - 1]
    /\ UNCHANGED <<currentUser, location, now, lastOp, dom, authRest>>

\* It rejects: the catch callback logs.
TokenRejected ==
    /\ authCalls.saves > 0
    /\ authCalls' = [authCalls EXCEPT !.saves = @ - 1]
    /\ UNCHANGED <<currentUser, storage, location, now, lastOp, dom, authRest>>

\* logout() as far as `await signOut(...)`.
Logout ==
    /\ location = "page"
    /\ authCalls.logout # "signingOut"
    /\ authCalls' = [authCalls EXCEPT !.logout = "signingOut"]
    /\ UNCHANGED <<currentUser, storage, location, now, lastOp, dom, authRest>>

SignOutResolvedKeepsToken ==
    /\ authCalls.logout = "signingOut"
    /\ currentUser' = <<>>
    /\ storage' = [NoSession EXCEPT !.authToken = storage.authToken]
    /\ location' = "index"
    /\ authCalls' = [authCalls EXCEPT !.logout = "returned"]
    /\ UNCHANGED <<now, lastOp, dom, authRest>>

\* The sign-out resolves: logout runs to its end.
SignOutResolved ==
    /\ authCalls.logout = "signingOut"
    /\ currentUser' = <<>>
    /\ storage' = NoSession
    /\ location' = "index"
    /\ authCalls' = [authCalls EXCEPT !.logout = "returned"]
    /\ UNCHANGED <<now, lastOp, dom, authRest>>

\* The sign-out rejects: logout logs and rethrows.
SignOutRejected ==
    /\ authCalls.logout = "signingOut"
    /\ authCalls' = [authCalls EXCEPT !.logout = "thrown"]
    /\ UNCHANGED <<currentUser, storage, location, now, lastOp, dom, authRest>>

IsSessionValid ==
    LET r == isSessionValid(storage, now)
    IN  /\ storage' = r.storage
        /\ lastOp' = [op |-> "isSessionValid", result |-> r.valid]
        /\ UNCHANGED <<currentUser, location, authCalls, now, dom, authRest>>

Tick ==
    /\ now < MaxTime * Unit
    /\ now' = now + Unit
    /\ UNCHANGED <<currentUser, storage, location, authCalls, lastOp, dom, authRest>>

\* The logout button of the navigation bar (handleLogout) or of the dashboard
\* is clicked: the handler goes as far as `await auth.signOut()`.
PageLogout ==
    /\ location = "page"
    /\ authCalls.pageLogout # "signingOut"
    /\ authCalls' = [authCalls EXCEPT !.pageLogout = "signingOut"]
    /\ UNCHANGED <<currentUser, storage, location, now, lastOp, dom, authRest>>

\* That sign-out resolves: the handler redirects to the home page.
PageSignOutResolved ==
    /\ authCalls.pageLogout = "signingOut"
    /\ location' = "index"
    /\ authCalls' = [authCalls EXCEPT !.pageLogout = "returned"]
    /\ UNCHANGED <<currentUser, storage, now, lastOp, dom, authRest>>

\* It rejects: the handler logs (the dashboard's also shows a toast).
PageSignOutRejected ==
    /\ authCalls.pageLogout = "signingOut"
    /\ authCalls' = [authCalls EXCEPT !.pageLogout = "failed"]
    /\ UNCHANGED <<currentUser, storage, location, now, lastOp, dom, authRest>>

AuthNext ==
    \/ Login
    \/ HandleLogin
    \/ SignInResolved
    \/ SignInRejected
    \/ TokenResolved
    \/ TokenRejected
    \/ Logout
    \/ SignOutResolved
    \/ SignOutRejected
    \/ PageLogout
    \/ PageSignOutResolved
    \/ PageSignOutRejected
    \/ IsSessionValid
    \/ Tick

AuthSpec == AuthInit /\ [][AuthNext]_vars

\* ------------------------------------------- app.js and dashboard.js pages
Total(p) == p["ann"] + p["bob"]

\* NavigationBar.render(user) up to its end or to `await getDoc(...)`.
render(n, user) ==
    IF ~n.el
    THEN n
    ELSE IF user # <<>>
    THEN [n EXCEPT !.currentUser = user, !.pending[user[1]] = @ + 1]
    ELSE [n EXCEPT !.currentUser = user,
                   !.menu = [kind |-> "guest", user |-> "", label |-> ""]]

\* The callback App.checkAuthState registers.
appAuthState(n, user) ==
    render([n EXCEPT !.notified = TRUE, !.lastUser = user], user)

\* The callback DashboardModule.checkAuth registers, up to its end or to
\* the `await getDoc(...)` of loadUserData.
dashAuthState(d, user) ==
    IF user # <<>>
    THEN [d EXCEPT !.currentUser = user, !.loads[user[1]] = @ + 1]
    ELSE d

\* displayUserData(userData): whose data is shown, beside the email of
\* this.currentUser.
displayUserData(d, data) ==
    [d EXCEPT !.shown = <<[data |-> data, email |-> d.currentUser]>>]

PageInit ==
    /\ IdleRest
    /\ form = <<>>
    /\ dom = <<>>
    /\ lastOp = [op |-> "none"]
    /\ IdleAuth
    /\ \E pg \in {"index", "dashboard"}, e \in BOOLEAN :
           nav = [NoNav EXCEPT !.page = pg, !.el = e]
    /\ dash = NoDash
    /\ download = NoDownload
    /\ register = NoRegister

pageRest ==
    <<restVars, formVars, currentUser, storage, authCalls, now, download,
      register>>

\* Firebase notifies the page's listeners of the auth state: the App's, and
\* on the dashboard page the DashboardModule's.  Both redirect a dashboard
\* page without user to the login page.
AuthStateChanged ==
    \E user \in {<<>>} \cup {<<u>> : u \in NavUsers} :
        /\ user # <<>> => /\ Total(nav.pending) < MaxRenders
                          /\ Total(dash.loads) < MaxRenders
        /\ nav' = appAuthState(nav, user)
        /\ dash' = IF nav.page = "dashboard"
                   THEN dashAuthState(dash, user) ELSE dash
        /\ location' = IF nav.page = "dashboard" /\ user = <<>>
                       THEN "login" ELSE location
        /\ UNCHANGED pageRest

\* render's getDoc resolves: the menu of the user it was started for, named
\* by the profile's username or by the email's local part.
LookupResolved ==
    \E u \in NavUsers, label \in {"username", "email"} :
        /\ nav.pending[u] > 0
        /\ nav' = [nav EXCEPT !.pending[u] = @ - 1,
                              !.menu = [kind |-> "user", user |-> u,
                                        label |-> label]]
        /\ UNCHANGED <<dash, location, pageRest>>

\* It rejects: the same menu, named by the email's local part.
LookupRejected ==
    \E u \in NavUsers :
        /\ nav.pending[u] > 0
        /\ nav' = [nav EXCEPT !.pending[u] = @ - 1,
                              !.menu = [kind |-> "user", user |-> u,
                                        label |-> "email"]]
        /\ UNCHANGED <<dash, location, pageRest>>

\* loadUserData's getDoc resolves: the document's data are displayed, or
\* those of this.currentUser when there is no document.
LoadResolved ==
    \E u \in NavUsers, exists \in BOOLEAN :
        /\ dash.loads[u] > 0
        /\ dash' = displayUserData([dash EXCEPT !.loads[u] = @ - 1],
                                   IF exists THEN <<u>> ELSE dash.currentUser)
        /\ UNCHANGED <<nav, location, pageRest>>

\* It rejects: the data of this.currentUser are displayed.
LoadRejected ==
    \E u \in NavUsers :
        /\ dash.loads[u] > 0
        /\ dash' = displayUserData([dash EXCEPT !.loads[u] = @ - 1],
                                   dash.currentUser)
        /\ UNCHANGED <<nav, location, pageRest>>

PageNext ==
    \/ AuthStateChanged
    \/ LookupRejected
    \/ LookupResolved
    \/ LoadRejected
    \/ LoadResolved

PageSpec == PageInit /\ [][PageNext]_vars

\* ---------------------------------------------------------- DownloadModule
\* The fields of the clientVersions/latest document the module reads: a
\* download URL ("" when the field is missing) and isAvailable.
DocData == [downloadUrl : {"", "#", "url"}, isAvailable : {"true", "false", "undefined"}]

\* this.clientInfo as getClientInfo builds it from the document's data.
clientInfoOf(data) ==
    [downloadUrl |-> IF data.downloadUrl = "" THEN "#" ELSE data.downloadUrl,
     isAvailable |-> data.isAvailable # "false"]

\* The fallback for a missing document and for a failed read.
FallbackInfo == [downloadUrl |-> "#", isAvailable |-> FALSE]

NoDownloadCall == [pc |-> "idle", info |-> <<>>, outcome |-> ""]

checkAvailabilityAnyUrl(info) == info.isAvailable

\* checkAvailability() for the client info getClientInfo gives it: FALSE
\* when it returns false, TRUE when it goes on to the HEAD request, after
\* which it returns true whether the request succeeds or fails.
checkAvailability(info) ==
    IF info.downloadUrl = "" \/ info.downloadUrl = "#"
    THEN FALSE
    ELSE info.isAvailable

toast(dl, i, kind) ==
    [dl EXCEPT !.toasts = Append(@, kind),
               !.calls[i].pc = "done",
               !.calls[i].outcome = kind]

\* downloadClient of call i from the value of `await this.getClientInfo()`
\* to its end or to the HEAD request.  checkAvailability's own
\* getClientInfo finds this.clientInfo set: an info that is available came
\* from the document or from this.clientInfo.
afterClientInfo(dl, i, info) ==
    LET d == [dl EXCEPT !.calls[i].info = <<info>>]
    IN  IF ~info.isAvailable
        THEN toast(d, i, "info")
        ELSE IF ~checkAvailability(d.clientInfo[1])
        THEN toast(d, i, "info")
        ELSE [d EXCEPT !.calls[i].pc = "checking"]

DownloadInit ==
    /\ IdleRest
    /\ form = <<>>
    /\ dom = <<>>
    /\ lastOp = [op |-> "none"]
    /\ IdleAuth
    /\ nav = NoNav
    /\ dash = NoDash
    /\ download = [NoDownload EXCEPT
                      !.calls = [i \in 1..MaxDownloads |-> NoDownloadCall]]
    /\ register = NoRegister

downloadRest == <<restVars, formVars, authVars, nav, dash, register>>

\* The download button is clicked: downloadClient up to its first pending
\* request.
DownloadClient ==
    \E i \in 1..MaxDownloads :
        /\ download.calls[i].pc = "idle"
        /\ download' =
               IF download.clientInfo # <<>>
               THEN afterClientInfo(download, i, download.clientInfo[1])
               ELSE [download EXCEPT !.calls[i].pc = "reading"]
        /\ UNCHANGED downloadRest

\* displayClientInfo from the value of `await this.getClientInfo()`: the
\* download button is enabled or disabled.
showClientInfo(dl, info) ==
    [dl EXCEPT !.display = "done",
               !.button = IF info.isAvailable THEN "enabled" ELSE "disabled"]

\* The page is loaded: displayClientInfo up to its pending request.
DisplayClientInfo ==
    /\ download.display = "idle"
    /\ download' = IF download.clientInfo # <<>>
                   THEN showClientInfo(download, download.clientInfo[1])
                   ELSE [download EXCEPT !.display = "reading"]
    /\ UNCHANGED downloadRest

DisplayInfoResolved ==
    \E exists \in BOOLEAN, data \in DocData :
        /\ download.display = "reading"
        /\ LET info == IF exists THEN clientInfoOf(data) ELSE FallbackInfo
           IN  download' =
                   showClientInfo([download EXCEPT !.clientInfo = <<info>>],
                                  info)
        /\ UNCHANGED downloadRest

DisplayInfoRejected ==
    /\ download.display = "reading"
    /\ download' = showClientInfo(download, FallbackInfo)
    /\ UNCHANGED downloadRest

\* getDoc resolves with the document's data, or with no document.
InfoResolved ==
    \E i \in 1..MaxDownloads, exists \in BOOLEAN, data \in DocData :
        /\ download.calls[i].pc = "reading"
        /\ LET info == IF exists THEN clientInfoOf(data) ELSE FallbackInfo
           IN  download' =
                   afterClientInfo([download EXCEPT !.clientInfo = <<info>>],
                                   i, info)
        /\ UNCHANGED downloadRest

\* getDoc rejects: the fallback is returned and not kept.
InfoRejected ==
    \E i \in 1..MaxDownloads :
        /\ download.calls[i].pc = "reading"
        /\ download' = afterClientInfo(download, i, FallbackInfo)
        /\ UNCHANGED downloadRest

\* The HEAD request resolves or rejects: the window is opened and the
\* download is logged.
HeadSettled ==
    \E i \in 1..MaxDownloads :
        /\ download.calls[i].pc = "checking"
        /\ download' = [download EXCEPT !.opened = @ + 1,
                                        !.log = @ + 1,
                                        !.calls[i].pc = "done",
                                        !.calls[i].outcome = "opened"]
        /\ UNCHANGED downloadRest

DownloadNext ==
    \/ DisplayClientInfo
    \/ DisplayInfoResolved
    \/ DisplayInfoRejected
    \/ DownloadClient
    \/ InfoResolved
    \/ InfoRejected
    \/ HeadSettled

DownloadSpec == DownloadInit /\ [][DownloadNext]_vars

\* ---------------------------------------------------------- RegisterModule
\* validatePassword(password): valid and the errors listed.
validatePassword(pw) ==
    IF pw = <<>>
    THEN [valid |-> FALSE, errors |-> <<"required">>]
    ELSE LET errors == IF Len(pw) < registerPasswordMin
                       THEN <<"short">> ELSE <<>>
         IN  [valid |-> errors = <<>>, errors |-> errors]

\* Letters, digits and the underscore, by one character of each class.
WordChars == {"a", "A", "1", "_"}

validateUsernameAnyLength(u) ==
    /\ u # <<>>
    /\ \A i \in 1..Len(u) : u[i] \in WordChars

\* /^[a-zA-Z0-9_]{3,20}$/.test(username), false for a falsy username
validateUsername(u) ==
    /\ u # <<>>
    /\ Len(u) >= usernameMin
    /\ Len(u) <= usernameMax
    /\ \A i \in 1..Len(u) : u[i] \in WordChars

RegUsernames ==
    {<<>>, Rep("a", 2), Rep("a", 3), Rep("a", 20), Rep("a", 21),
     <<"A", "_", "1">>, <<"a", "-", "a">>, <<"a", " ", "a">>}

RegEmails ==
    {<<>>, <<"a", "@", "a">>, <<"a", "@", "a", ".", "a">>,
     <<"a", " ", "@", "a", ".", "a">>}

RegPasswords == {<<>>, Rep("a", 7), Rep("a", 8), Rep("a", 9)}

\* register(username, email, password) up to its first throw or to
\* `await this.checkUsernameAvailability(username)`.
registerStart(args) ==
    LET r == [NoRegister EXCEPT !.args = args]
    IN  IF ~registerValidateEmail(args.email)
        THEN [r EXCEPT !.pc = "thrown", !.error = "email"]
        ELSE IF ~validatePassword(args.password).valid
        THEN [r EXCEPT !.pc = "thrown", !.error = "password"]
        ELSE IF ~validateUsername(args.username)
        THEN [r EXCEPT !.pc = "thrown", !.error = "username"]
        ELSE [r EXCEPT !.pc = "checking"]

\* register from the value of checkUsernameAvailability on: the throw for
\* a taken name, or the account-creation call.
afterAvailability(r, isAvailable) ==
    IF ~isAvailable
    THEN [r EXCEPT !.pc = "thrown", !.error = "taken"]
    ELSE [r EXCEPT !.pc = "creating", !.created = @ + 1]

RegisterInit ==
    /\ IdleRest
    /\ form = <<>>
    /\ dom = <<>>
    /\ lastOp = [op |-> "none"]
    /\ IdleAuth
    /\ IdlePages

registerRest == <<restVars, formVars, authVars, nav, dash, download>>

Register ==
    /\ register.pc = "idle"
    /\ \E u \in RegUsernames, e \in RegEmails, pw \in RegPasswords :
           register' = registerStart([username |-> u, email |-> e,
                                      password |-> pw])
    /\ UNCHANGED registerRest

\* The query for the username answers, with documents or with none.
AvailabilityResolved ==
    /\ register.pc = "checking"
    /\ \E empty \in BOOLEAN :
           register' = afterAvailability(
               [register EXCEPT !.found = IF empty THEN "available"
                                          ELSE "taken"], empty)
    /\ UNCHANGED registerRest

\* The query fails: checkUsernameAvailability logs and returns true.
AvailabilityRejected ==
    /\ register.pc = "checking"
    /\ register' = afterAvailability([register EXCEPT !.found = "unknown"],
                                     TRUE)
    /\ UNCHANGED registerRest

\* The account is created: the profile write is issued.
CreateResolved ==
    /\ register.pc = "creating"
    /\ register' = [register EXCEPT !.pc = "writing", !.written = @ + 1]
    /\ UNCHANGED registerRest

CreateRejected ==
    /\ register.pc = "creating"
    /\ register' = [register EXCEPT !.pc = "thrown", !.error = "create"]
    /\ UNCHANGED registerRest

WriteResolved ==
    /\ register.pc = "writing"
    /\ register' = [register EXCEPT !.pc = "returned"]
    /\ UNCHANGED registerRest

WriteRejected ==
    /\ register.pc = "writing"
    /\ register' = [register EXCEPT !.pc = "thrown", !.error = "write"]
    /\ UNCHANGED registerRest

RegisterNext ==
    \/ Register
    \/ AvailabilityResolved
    \/ AvailabilityRejected
    \/ CreateResolved
    \/ CreateRejected
    \/ WriteResolved
    \/ WriteRejected

RegisterSpec == RegisterInit /\ [][RegisterNext]_vars

\* ================================================================= claims
\* ------------------------------------------------------------------- C1
\* C1: a call whose attempts all fail makes exactly maxRetries (3) attempts
\* and then ends thrown, once; it never starts an attempt beyond maxRetries
\* and has no result.
C1_ExactlyMaxRetriesAttempts ==
    /\ call.attempt <= maxRetries
    /\ Len(call.errors) <= maxRetries
    /\ (call.pc = "thrown") <=> (Len(call.errors) = maxRetries)
    /\ call.pc = "thrown" =>
           /\ call.attempt = maxRetries
           /\ call.result = NoValue
           /\ Len(call.toasts) = 1

C1_Witness ==
    /\ call.pc = "thrown"
    /\ call.attempt = 3
    /\ call.errors = <<"network", "abort", "http">>

\* ------------------------------------------------------------------- C2
\* C2: when attempt k is the first to succeed the call returns the payload
\* that attempt decoded, k attempts have been made (k-1 failures and the
\* success), and no attempt and no backoff wait is started after it.
C2_SuccessEndsTheCall ==
    call.pc = "returned" =>
        /\ call.result \in Payloads
        /\ call.result = call.body
        /\ call.attempt = Len(call.errors) + 1
        /\ Len(call.waits) = Len(call.errors)
        /\ call.delayMs = 0

C2_Witness ==
    /\ call.pc = "returned"
    /\ call.attempt = 2
    /\ call.result = [kind |-> "count", n |-> 1]

\* ------------------------------------------------------------------- C3
\* C3: the wait requested after failed attempt i is retryDelay * i, and the
\* failure of the last attempt is followed by no wait.
C3_LinearBackoff ==
    /\ \A i \in 1..Len(call.waits) : call.waits[i] = retryDelay * i
    /\ call.pc = "delaying" =>
           /\ call.attempt < maxRetries
           /\ call.delayMs = retryDelay * call.attempt
           /\ Len(call.waits) = call.attempt
    /\ call.pc # "delaying" => call.delayMs = 0
    /\ call.pc = "thrown" => Len(call.waits) = maxRetries - 1

C3_Witness ==
    /\ call.pc = "thrown"
    /\ call.waits = <<1000, 2000>>

\* ------------------------------------------------------------------- C4
\* C4: an attempt is guarded by its abort timer from the request until its
\* payload is decoded or it has failed: while the attempt is pending, its
\* abortAfterMs timer is armed.
C4_AttemptBoundedByTimeout ==
    InFlight(call) =>
        [attempt |-> call.attempt, ms |-> abortAfterMs] \in call.abortTimers

\* ------------------------------------------------------------------- C5
\* C5: the terminal classification is Timeout when the last attempt was
\* aborted by its timer (online or not), otherwise Offline when
\* navigator.onLine is false at that moment, otherwise ConnectionError;
\* earlier failures play no part.
C5_ClassifiedByLastFailure ==
    [][(call.pc # "thrown" /\ call'.pc = "thrown") =>
           call'.toasts =
               << IF Last(call'.errors) = "abort" THEN "Timeout"
                  ELSE IF ~onLine THEN "Offline"
                  ELSE "ConnectionError" >>]_vars

C5_Witness ==
    /\ call.pc = "thrown"
    /\ call.errors = <<"abort", "abort", "network">>
    /\ call.toasts = <<"Offline">>

\* ------------------------------------------------------------------- C6
\* C6: a call has shown one error toast when it has ended thrown and none
\* otherwise; a failure that is retried shows none.
C6_OneToastIffThrown ==
    Len(call.toasts) = IF call.pc = "thrown" THEN 1 ELSE 0

C6_Witness ==
    /\ call.pc = "returned"
    /\ Len(call.errors) = 2
    /\ call.toasts = <<>>

\* ------------------------------------------------------------------- C7
\* C7: a status that is not ok and a body that does not decode fail the
\* attempt as a network error does: before the last attempt the same
\* backoff follows and the call goes on, on the last attempt the call is
\* thrown; nothing is returned.
C7_HttpAndDecodeAreRetried ==
    [][(/\ Len(call'.errors) = Len(call.errors) + 1
        /\ Last(call'.errors) \in {"http", "decode"}) =>
           /\ call'.result = NoValue
           /\ call'.attempt = call.attempt
           /\ IF call.attempt < maxRetries
              THEN /\ call'.pc = "delaying"
                   /\ call'.delayMs = retryDelay * call.attempt
              ELSE call'.pc = "thrown"]_vars

C7_Witness ==
    /\ call.pc = "fetching"
    /\ call.attempt = 3
    /\ call.errors = <<"http", "decode">>

\* ------------------------------------------------------------------- C8
\* C8: attempts do not overlap: while an attempt is pending every earlier
\* attempt has failed and no backoff is pending, and attempt i+1 starts
\* only when the backoff after failed attempt i elapses.
C8_OneAttemptAtATime ==
    /\ [](InFlight(call) =>
              /\ Len(call.errors) = call.attempt - 1
              /\ call.delayMs = 0)
    /\ [][call'.attempt # call.attempt =>
              /\ call'.attempt = call.attempt + 1
              /\ \/ call.pc = "idle"
                 \/ /\ call.pc = "delaying"
                    /\ Len(call.errors) = call.attempt]_vars

C8_Witness ==
    /\ call.pc = "decoding"
    /\ call.attempt = 3
    /\ Len(call.waits) = 2

\* ------------------------------------------------------------------- C9
\* C9: given that timers fire, every call that was made settles: it
\* returns or throws.
C9_EveryCallSettles == (call.pc # "idle") ~> Settled(call)

\* ------------------------------------------------------------------ C10
\* C10: at most one update cycle is in progress, isUpdating says whether
\* one is, and while one is in progress no step (tick, first update of a
\* startAutoUpdate) starts another.
C10_OneCycleAtATime ==
    /\ [](/\ Cardinality(Running) <= 1
          /\ stats.isUpdating <=> (Running # {}))
    /\ [][Running # {} =>
              \A i \in 1..MaxCycles :
                  ~InProgress(cycles[i]) => ~InProgress(cycles'[i])]_vars

C10_Witness ==
    /\ stats.isUpdating
    /\ intervals # {}
    /\ \E i \in 1..MaxCycles : cycles[i].pc = "delaying"

\* ------------------------------------------------------------------ C11
\* C11: given that timers fire, every update cycle that starts ends:
\* whenever isUpdating is set it is later cleared.
C11_FlagEventuallyCleared == stats.isUpdating ~> ~stats.isUpdating

\* ------------------------------------------------- validate: shared terms
\* The fields the forEach callback goes past its emptiness check for.
Evaluated(f) == f.required /\ ~f.disabled /\ ~IsBlank(f.value)

TooShort(f) == f.minlength # <<>> /\ Len(f.value) < f.minlength[1]

TooLong(f) == f.maxlength # <<>> /\ Len(f.value) > f.maxlength[1]

OffPattern(f) == f.pattern # "" /\ ~Matches(f.pattern, f.value)

Validated == lastOp.op = "validate"

\* ------------------------------------------------------------------ C12
\* C12: validate also evaluates the fields that are not required but carry
\* a length or pattern constraint: such a field, when its (non-blank) value
\* violates the constraint, has an entry in errors.
C12_ConstrainedFieldsAreValidated ==
    Validated =>
        \A i \in 1..Len(form) :
            (/\ ~form[i].required
             /\ ~form[i].disabled
             /\ ~IsBlank(form[i].value)
             /\ TooShort(form[i]) \/ TooLong(form[i]) \/ OffPattern(form[i]))
            => form[i].name \in DOMAIN lastOp.result.errors

\* ------------------------------------------------------------------ C13
\* C13: a required field whose value is missing, empty or blank gets the
\* required message, whatever its type and its other attributes.
C13_RequiredEmptyStops ==
    Validated =>
        \A i \in 1..Len(form) :
            (form[i].required /\ (form[i].disabled \/ IsBlank(form[i].value)))
            => /\ form[i].name \in DOMAIN lastOp.result.errors
               /\ lastOp.result.errors[form[i].name] =
                      [rule |-> "required", n |-> 0,
                       label |-> IF form[i].placeholder # ""
                                 THEN form[i].placeholder
                                 ELSE form[i].name]

C13_Witness ==
    /\ Validated
    /\ form[1].required
    /\ form[1].type = "email"
    /\ form[1].value = <<" ">>
    /\ form[1].minlength = <<8>>
    /\ form[1].pattern = "^a+$"
    /\ lastOp.result.errors["f1"].rule = "required"

C15_EmailMessageKept ==
    (/\ Validated
     /\ form[1].required
     /\ ~form[1].disabled
     /\ form[1].type = "email"
     /\ form[1].minlength = <<8>>
     /\ form[1].maxlength = <<>>
     /\ form[1].pattern = ""
     /\ Len(form[1].value) = 5
     /\ ~IsBlank(form[1].value)
     /\ ~validateEmail(form[1].value))
    => /\ "f1" \in DOMAIN lastOp.result.errors
       /\ lastOp.result.errors["f1"].rule = "email"

\* ------------------------------------------------------------------ C16
\* C16: valid holds exactly when errors is empty, and a field has an entry
\* in errors exactly when it violates at least one rule: it is required and
\* empty, or its non-blank value fails the email, password, minlength,
\* maxlength or pattern rule.
C16_ErrorsAreTheViolations ==
    Validated =>
        /\ lastOp.result.valid <=> (DOMAIN lastOp.result.errors = {})
        /\ \A i \in 1..Len(form) :
               LET f == form[i]
                   pmin == IF f.minlength # <<>> THEN f.minlength[1] ELSE 8
               IN  f.name \in DOMAIN lastOp.result.errors
                   <=> \/ f.required /\ (f.disabled \/ IsBlank(f.value))
                       \/ /\ ~f.disabled
                          /\ ~IsBlank(f.value)
                          /\ \/ f.type = "email" /\ ~validateEmail(f.value)
                             \/ f.type = "password" /\ Len(f.value) < pmin
                             \/ TooShort(f)
                             \/ TooLong(f)
                             \/ OffPattern(f)

\* ------------------------------------------------------------------ C17
\* C17: an evaluated password field (with no maxlength and no pattern)
\* whose value is shorter than its minlength, or than 8 when it has none,
\* ends with the password message naming that minimum.
C17_PasswordMessageReported ==
    Validated =>
        \A i \in 1..Len(form) :
            LET f == form[i]
                pmin == IF f.minlength # <<>> THEN f.minlength[1] ELSE 8
            IN  (/\ Evaluated(f)
                 /\ f.type = "password"
                 /\ f.maxlength = <<>>
                 /\ f.pattern = ""
                 /\ Len(f.value) < pmin)
                => /\ f.name \in DOMAIN lastOp.result.errors
                   /\ lastOp.result.errors[f.name] = Msg("password", pmin, "")

C19_DisplayShowsExactlyErrors ==
    lastOp.op = "displayErrors" =>
        \A n \in DOMAIN dom :
            IF n \in DOMAIN lastOp.errors
            THEN /\ dom[n].marked
                 /\ dom[n].el
                 /\ dom[n].text = lastOp.errors[n]
                 /\ dom[n].display = "block"
            ELSE /\ ~dom[n].marked
                 /\ dom[n].text = NoMsg
                 /\ dom[n].display # "block"

C19_Witness ==
    /\ lastOp.op = "displayErrors"
    /\ DOMAIN lastOp.errors = {"f1", "zz"}
    /\ dom["f1"].marked
    /\ dom["f2"].el
    /\ dom["f2"].display = "none"

\* ------------------------------------------------------------------ C20
\* C20: after clearErrors no field is marked and no message element shows
\* text, whatever calls came before; clearing again changes nothing.
C20_ClearErrorsClearsAll ==
    /\ lastOp.op = "clearErrors" =>
           \A n \in DOMAIN dom :
               /\ ~dom[n].marked
               /\ dom[n].text = NoMsg
               /\ dom[n].display # "block"
    /\ clearErrors(clearErrors(dom)) = clearErrors(dom)

C20_Witness ==
    /\ lastOp.op = "clearErrors"
    /\ dom["f1"].el
    /\ dom["f1"].display = "none"
    /\ dom["f2"].el
    /\ ~dom["f2"].marked

\* ------------------------------------------------------------------ C21
\* C21: the annotations shown are derived from the last validation result:
\* once validate has run, a field it found valid carries no mark and no
\* message from an earlier pass.
C21_ValidateWipesAnnotations ==
    Validated =>
        \A n \in DOMAIN dom :
            n \notin DOMAIN lastOp.result.errors =>
                ~dom[n].marked /\ dom[n].text = NoMsg

\* ------------------------------------------------------------------ C22
\* The field of the page with a given name, and what validate restricted to
\* the required, email and minlength rules leaves in errors for a field.
FieldNamed(n) == form[CHOOSE i \in 1..Len(form) : form[i].name = n]

RestrictedMessage(f) ==
    IF ~f.required THEN NoMsg
    ELSE IF IsBlank(f.value) THEN requiredMessage(f)
    ELSE ruleMinLength(f, f.value, ruleEmail(f, f.value, NoMsg))

\* C22: after validateField on a field with a message element, the field is
\* marked exactly when validate restricted to required-empty, email-format
\* and min-length reports an error for it, the message shown is that of the
\* same rule, and otherwise mark and message are cleared.
C22_LiveValidationAgreesWithValidate ==
    (lastOp.op = "validateField" /\ dom[lastOp.name].el) =>
        LET f == FieldNamed(lastOp.name)
            shown == dom[lastOp.name]
        IN  IF RestrictedMessage(f) # NoMsg
            THEN /\ shown.marked
                 /\ shown.text.rule = RestrictedMessage(f).rule
            ELSE /\ ~shown.marked
                 /\ shown.text = NoMsg

\* ------------------------------------------------------------------ C23
\* C23: validateField on a field without a message element changes neither
\* the field's mark nor any message element.
C23_NoElementNoEffect ==
    [][(lastOp'.op = "validateField" /\ ~dom[lastOp'.name].el) => dom' = dom]_vars

C23_Witness ==
    /\ lastOp.op = "validateField"
    /\ ~dom[lastOp.name].el
    /\ ~dom[lastOp.name].marked
    /\ liveMessage(FieldNamed(lastOp.name)) # NoMsg
    /\ \E n \in DOMAIN dom : dom[n].marked

\* ------------------------------------------------------------------ C24
\* The shape local@domain.tld said without the regular expression: one '@',
\* no whitespace, text before the '@', and after it a '.' with text on both
\* sides.
At(s) == {i \in 1..Len(s) : s[i] = "@"}

HasEmailShape(s) ==
    /\ Cardinality(At(s)) = 1
    /\ \A i \in 1..Len(s) : s[i] # " "
    /\ \E a \in At(s) :
           /\ a > 1
           /\ \E j \in (a + 2)..(Len(s) - 1) : s[j] = "."

\* C24: validateEmail(s) is true exactly for the strings of the shape
\* local@domain.tld, and the FormValidator and RegisterModule predicates
\* agree on every string.
C24_EmailShape ==
    lastOp.op = "validateEmail" =>
        /\ lastOp.formValidator = HasEmailShape(form[1].value)
        /\ lastOp.registerModule = lastOp.formValidator

C24_Witness ==
    /\ lastOp.op = "validateEmail"
    /\ form[1].value = <<"a", "@", "a", ".", "a", "a">>
    /\ lastOp.formValidator
    /\ lastOp.registerModule

\* ------------------------------------------------------------------ C25
\* C25: a validate call changes neither the fields nor the annotations
\* shown, and as long as the form is unchanged the result it gave is the
\* result another call gives.
C25_ValidateIsPure ==
    /\ [](Validated => lastOp.result = validate(form))
    /\ [][lastOp'.op = "validate" => (form' = form /\ dom' = dom)]_vars

C25_Witness ==
    /\ Validated
    /\ ~lastOp.result.valid
    /\ \E n \in DOMAIN dom : dom[n].marked /\ n \notin DOMAIN lastOp.result.errors

\* ------------------------------------------------------------------ C26
\* C26: at most one refresh timer is active, and none once the instance
\* holds no timer id; stopAutoUpdate applied twice gives what it gives
\* applied once; while stopped, no step starts an update cycle.
C26_AtMostOneTimer ==
    /\ [](/\ Cardinality(intervals) <= 1
          /\ stats.updateInterval = 0 => intervals = {}
          /\ LET once == stopAutoUpdate(stats, intervals)
             IN  stopAutoUpdate(once.stats, once.intervals) = once)
    /\ [][(stats.updateInterval = 0 /\ stats'.updateInterval = 0)
             => RunningIn(cycles') \subseteq RunningIn(cycles)]_vars

C26_Witness ==
    /\ stats.updateInterval = 0
    /\ intervals = {}
    /\ stats.isUpdating
    /\ stats.lastKnownCount # <<>>

\* ------------------------------------------------------------------ C27
\* Cycle i's fetch call settles in this step.
Settles(i) == Settled(cycles'[i]) /\ ~Settled(cycles[i])

\* C27: when a cycle's fetch fails, the counter shows the previous count as
\* stale, not as active with a refreshed timestamp, if there is a previous
\* count, and shows `unavailable` without a number if there is none.
C27_FailureShowsStaleCount ==
    [][\A i \in 1..MaxCycles :
          (Settles(i) /\ cycles'[i].pc = "thrown") =>
              IF stats.lastKnownCount # <<>>
              THEN /\ display'.text =
                          [kind |-> "stale", n |-> stats.lastKnownCount[1]]
                   /\ "unavailable" \in display'.classes
                   /\ ~("active" \in display'.classes /\ display'.stamped)
              ELSE display'.text.kind = "unavailable"]_vars

\* ------------------------------------------------------------------ C28
\* C28: a refresh that obtains a count gives the counter the `updated`
\* marker exactly when a previous count exists and differs from it.
C28_ChangedCountIsMarked ==
    [][\A i \in 1..MaxCycles :
          (/\ Settles(i)
           /\ cycles'[i].pc = "returned"
           /\ cycles'[i].result.kind = "count") =>
              ("updated" \in display'.classes
                  <=> (/\ stats.lastKnownCount # <<>>
                       /\ stats.lastKnownCount # <<cycles'[i].result.n>>))]_vars

\* ------------------------------------------------------------------ C29
\* C29: lastKnownCount changes only when a cycle's fetch returns a payload
\* with a numeric onlinePlayers, and becomes that number; otherwise it is
\* kept and getOnlinePlayersCount returns it, or 0 (malformed payload) or
\* null (failed fetch) when there is none.
C29_LastKnownCountFrame ==
    [][/\ \A i \in 1..MaxCycles :
              Settles(i) =>
                  LET c == cycles'[i]
                      last == stats.lastKnownCount
                      got == getOnlinePlayersCount(last, c)
                  IN  IF c.pc = "returned" /\ c.result.kind = "count"
                      THEN /\ stats'.lastKnownCount = <<c.result.n>>
                           /\ got.count = <<c.result.n>>
                      ELSE /\ stats'.lastKnownCount = last
                           /\ got.count = IF last # <<>> THEN last
                                          ELSE IF c.pc = "returned" THEN <<0>>
                                          ELSE <<>>
       /\ (\A i \in 1..MaxCycles : ~Settles(i))
              => stats'.lastKnownCount = stats.lastKnownCount]_vars

C29_Witness ==
    /\ stats.lastKnownCount = <<1>>
    /\ ~stats.isUpdating
    /\ \E i \in 1..MaxCycles : cycles[i].pc = "thrown"

\* ------------------------------------------------------------------ C30
\* C30: when logout's sign-out succeeds, the three session keys are gone,
\* currentUser is null and isSessionValid() is false; when it fails, the
\* error is rethrown and currentUser, the stored keys and the page location
\* are as they were.
C30_LogoutClearsOrKeeps ==
    [][/\ (authCalls.logout = "signingOut" /\ authCalls'.logout = "returned")
              => /\ storage' = NoSession
                 /\ currentUser' = <<>>
                 /\ ~isSessionValid(storage', now').valid
       /\ (authCalls.logout = "signingOut" /\ authCalls'.logout = "thrown")
              => /\ currentUser' = currentUser
                 /\ storage' = storage
                 /\ location' = location]_vars

C30_Witness ==
    /\ authCalls.logout = "returned"
    /\ authCalls.login = "returned"
    /\ authCalls.saves = 0
    /\ storage = NoSession
    /\ currentUser = <<>>
    /\ location = "index"
    /\ now = 0

\* ------------------------------------------------------------------ C31
\* C31: when a logout completes, by AuthModule.logout or by the logout
\* button of the navigation bar or of the dashboard, no session token is
\* left in local storage.
C31_EveryLogoutPathClearsToken ==
    [][(\/ authCalls.logout = "signingOut" /\ authCalls'.logout = "returned"
        \/ /\ authCalls.pageLogout = "signingOut"
           /\ authCalls'.pageLogout = "returned")
          => storage'.authToken = <<>>]_vars

\* ------------------------------------------------------------------ C32
\* The clock readings of the model and one beyond.
Times == {k * Unit : k \in 0..(MaxTime + 1)}

\* C32: isSessionValid returns true exactly when the token and the expiry
\* are stored and the time is before the expiry; the expiry stored is one
\* hour after the save; a session found expired is removed, and after a
\* false answer every later call answers false while nothing is saved.
C32_ValidUntilExpiry ==
    /\ [](LET r == isSessionValid(storage, now)
          IN  /\ r.valid <=> (/\ storage.authToken # <<>>
                              /\ storage.sessionExpiry # <<>>
                              /\ now < storage.sessionExpiry[1])
              /\ r.storage = IF /\ storage.authToken # <<>>
                                /\ storage.sessionExpiry # <<>>
                                /\ now >= storage.sessionExpiry[1]
                             THEN NoSession ELSE storage
              /\ ~r.valid =>
                     \A t \in Times :
                         t >= now => ~isSessionValid(r.storage, t).valid)
    /\ [][(storage'.sessionExpiry # storage.sessionExpiry
              /\ storage'.sessionExpiry # <<>>)
             => storage'.sessionExpiry = <<now + 3600000>>]_vars

C32_Witness ==
    /\ lastOp.op = "isSessionValid"
    /\ ~lastOp.result
    /\ storage = NoSession
    /\ now = sessionLifetime
    /\ authCalls.logout = "idle"
    /\ authCalls.login = "idle"

\* ------------------------------------------------------------------ C33
\* C33: once logout has completed, local storage holds none of the three
\* session keys, whatever the token save of an earlier login does.
C33_NoSessionAfterLogout ==
    authCalls.logout = "returned" => storage = NoSession

\* ------------------------------------------------------------------ C34
\* C34: a failed login leaves currentUser and the stored keys as they were,
\* starts no token save and redirects nowhere; the page goes to the
\* dashboard only in the step in which a login succeeds.
C34_FailedLoginChangesNothing ==
    [][/\ (authCalls.login = "signingIn" /\ authCalls'.login = "thrown")
              => /\ currentUser' = currentUser
                 /\ storage' = storage
                 /\ authCalls'.saves = authCalls.saves
                 /\ location' = location
       /\ (location' = "dashboard" /\ location # "dashboard")
              => /\ authCalls.login = "signingIn"
                 /\ authCalls'.login = "returned"]_vars

C34_Witness ==
    /\ authCalls.login = "thrown"
    /\ authCalls.viaForm
    /\ location = "page"
    /\ dom["password"].text # NoMsg
    /\ currentUser # <<>>
    /\ storage = NoSession

\* ------------------------------------------------------------------ C35
\* C35: once no render is pending, the menu is the one of the last notified
\* auth state: the login and register links for no user, that user's menu
\* otherwise.
C35_MenuReflectsLastAuthState ==
    (nav.el /\ nav.notified /\ Total(nav.pending) = 0) =>
        IF nav.lastUser = <<>>
        THEN nav.menu.kind = "guest"
        ELSE nav.menu.kind = "user" /\ <<nav.menu.user>> = nav.lastUser

\* ------------------------------------------------------------------ C36
\* C36: a dashboard page notified of no user is redirected to the login
\* page; profile data are loaded and displayed only while a user is signed
\* in, and never displayed with currentUser null.
C36_DashboardGuarded ==
    /\ []((nav.page = "dashboard" /\ nav.notified /\ nav.lastUser = <<>>)
             => location = "login")
    /\ [][/\ dash'.loads # dash.loads /\ Total(dash'.loads) > Total(dash.loads)
                 => nav'.lastUser # <<>>
          /\ dash'.shown # dash.shown
                 => /\ nav.lastUser # <<>>
                    /\ dash.currentUser # <<>>]_vars

\* ------------------------------------------------------------------ C37
\* Call i of downloadClient ends in this step.
Ends(i) == download'.calls[i].pc = "done" /\ download.calls[i].pc # "done"

\* C37: a downloadClient call opens the download location, and logs one
\* download, only with a client info that is available and whose URL is
\* set and not '#'; a call that ends otherwise opens nothing, logs nothing
\* and shows one notification; nothing else opens a window or logs.
C37_OpensOnlyWhenAvailable ==
    [][/\ \A i \in 1..MaxDownloads :
              Ends(i) =>
                  LET info == download'.calls[i].info[1]
                  IN  IF /\ info.isAvailable
                         /\ info.downloadUrl \notin {"", "#"}
                      THEN /\ download'.opened = download.opened + 1
                           /\ download'.log = download.log + 1
                           /\ download'.toasts = download.toasts
                      ELSE /\ download'.opened = download.opened
                           /\ download'.log = download.log
                           /\ Len(download'.toasts) = Len(download.toasts) + 1
       /\ (\A i \in 1..MaxDownloads : ~Ends(i))
              => /\ download'.opened = download.opened
                 /\ download'.log = download.log]_vars

C37_Witness ==
    /\ download.opened = 1
    /\ download.log = 1
    /\ Len(download.toasts) = 1
    /\ \E i \in 1..MaxDownloads :
           /\ download.calls[i].outcome = "info"
           /\ download.calls[i].info[1].isAvailable
           /\ download.calls[i].info[1].downloadUrl = "#"

\* ------------------------------------------------------------------ C38
\* The three checks on the arguments, said without the module's methods.
EmailOk == HasEmailShape(register.args.email)

PasswordOk == Len(register.args.password) >= 8

UsernameOk ==
    /\ Len(register.args.username) \in 3..20
    /\ \A i \in 1..Len(register.args.username) :
           register.args.username[i] \in {"a", "A", "1", "_"}

\* The error of the first failing check in the order email, password,
\* username, availability ("": none fails).
FirstFailure ==
    IF ~EmailOk THEN "email"
    ELSE IF ~PasswordOk THEN "password"
    ELSE IF ~UsernameOk THEN "username"
    ELSE IF register.found = "taken" THEN "taken"
    ELSE ""

\* A check has failed: register has thrown its error, no account-creation
\* and no profile-write call was issued.
FailsBeforeCreation ==
    (register.pc # "idle" /\ FirstFailure # "") =>
        /\ register.pc = "thrown"
        /\ register.error = FirstFailure
        /\ register.created = 0
        /\ register.written = 0

\* C38 as stated: an account is created only with three valid arguments
\* and a username found available, and a failing check throws first.
C38_CreatesOnlyWhenFoundAvailable ==
    /\ register.created > 0 =>
           EmailOk /\ PasswordOk /\ UsernameOk /\ register.found = "available"
    /\ FailsBeforeCreation

\* C38 amended: the username was not found taken; a failed availability
\* query counts as available.
C38_CreatesUnlessFoundTaken ==
    /\ register.created > 0 =>
           EmailOk /\ PasswordOk /\ UsernameOk /\ register.found # "taken"
    /\ register.written > 0 => register.created > 0
    /\ FailsBeforeCreation

C38_Witness ==
    /\ register.pc = "returned"
    /\ register.found = "unknown"
    /\ register.created = 1
    /\ register.written = 1
    /\ Len(register.args.username) = 20

====
